---- MODULE Spec2Model ----
(***************************************************************************)
(* Verification model of the stable_mir serialization core:                *)
(*   - the cycle-safe allocation indexer (mir/alloc.rs) and the scoped     *)
(*     serialization session that carries its registry (lib.rs);           *)
(*   - the default MIR visitor (mir/visit.rs);                             *)
(*   - PlaceRef::ty (mir/visit.rs) and read_target_uint/int (mir/alloc.rs).*)
(***************************************************************************)
EXTENDS Integers, Sequences, FiniteSets, TLC

VARIABLES
    global_alloc,   \* host context: AllocId -> GlobalAlloc (kind, provenance ptrs)
    TLV,            \* per thread: is the scoped thread local set
    scc,            \* per thread: the SerializeCycleCheck registry TLV points to
    stack,          \* per thread: frames of get_index_and_populate_allocs
    pc,             \* per thread: "idle" | "session" | "panicked"
    returned,       \* per thread: <<id, index>> pairs returned in the session
    descents,       \* per thread: AllocId -> times its provenance was entered
    ev,             \* the last call or return that happened
    node,           \* the MIR item handed to the visitor, and the visitor
    result          \* the visit calls the traversal made, and whether it panicked

allocVars == <<global_alloc, TLV, scc, stack, pc, returned, descents, ev>>

visitVars == <<node, result>>

vars == <<allocVars, visitVars>>

----------------------------------------------------------------------------
(* Bounds *)

\* allocation ids known to the host context
NumAllocs == 2
\* provenance entries in the whole allocation graph
MaxPtrs == 3
\* generic arguments of a type
MaxTyArgs == 1
\* existential predicate binders of a dynamic type
MaxBinders == 2
\* source spans
NumSpans == 2
\* the largest local index a place names
MaxLocal == 1
\* projection steps of a place
MaxProj == 2
\* operands of an aggregate, arguments of a call, operands of inline assembly
MaxOperands == 2
\* statements of a basic block
MaxStmts == 2
\* basic blocks of a body
MaxBlocks == 2
\* argument locals of a body
MaxArgs == 2
\* interior locals of a body
MaxInner == 2
\* debug-info entries of a body
MaxDebugInfo == 1
\* bytes of a slice handed to read_target_uint / read_target_int
MaxBytes == 17

----------------------------------------------------------------------------
(* Helpers *)

Range(s) == {s[i] : i \in 1..Len(s)}

----------------------------------------------------------------------------
(* mir/alloc.rs: GlobalAlloc, AllocId *)

AllocId == 0..(NumAllocs - 1)

\* the GlobalAlloc values whose provenance map has n entries
GlobalAlloc(n) ==
    IF n = 0
    THEN [kind : {"Function", "VTable", "Static", "Memory"}, ptrs : {<<>>}]
    ELSE [kind : {"Memory"}, ptrs : [1..n -> AllocId]]

\* the answers of cx.global_alloc for the first n ids, budget entries in all
RECURSIVE AllocGraphs(_, _)
AllocGraphs(n, budget) ==
    IF n = 0 THEN {<<>>}
    ELSE UNION {{Append(g, x) : g \in AllocGraphs(n - 1, budget - l), x \in GlobalAlloc(l)} :
                l \in 0..budget}

\* a descent that skips the provenance map
provenance_ptrs_skip(alloc) == <<>>

\* allocation.provenance.ptrs in iteration order, for a Memory allocation only
provenance_ptrs(alloc) == IF alloc.kind = "Memory" THEN alloc.ptrs ELSE <<>>

\* Iterator::position: 0-based index of the first match, -1 for None
position(s, a) ==
    IF \E i \in 1..Len(s) : s[i] = a
    THEN (CHOOSE i \in 1..Len(s) : s[i] = a /\ \A j \in 1..(i - 1) : s[j] # a) - 1
    ELSE -1

----------------------------------------------------------------------------
(* lib.rs: SerializeCycleCheck, TLV *)

NoScc == [seen_allocs |-> {}, allocs_ordered |-> <<>>, live |-> FALSE]

\* RefCell::new(Default::default())
DefaultScc == [seen_allocs |-> {}, allocs_ordered |-> <<>>, live |-> TRUE]

NoEvent == [op |-> "none", t |-> "none", id |-> -1, index |-> -1, depth |-> 0, first |-> FALSE]

Threads == DOMAIN pc

\* to_json without its assertion
to_json_unchecked(t) == TRUE

\* an assertion on a flag that all threads share
to_json_assert_shared(t) == \A u \in DOMAIN TLV : ~TLV[u]

\* assert!(!TLV.is_set()) in to_json
to_json_assert(t) == ~TLV[t]

\* cycle_check without its assertion
cycle_check_unchecked(t) == TRUE

\* assert!(TLV.is_set()) in cycle_check
cycle_check_assert(t) == TLV[t]

----------------------------------------------------------------------------
(* get_index_and_populate_allocs, one frame per activation *)

\* the test of line 52
is_first_request(s, a) == a \notin s.seen_allocs

\* a registry that appends without recording the id as seen
mark_seen_unrecorded(s, a) ==
    [s EXCEPT !.allocs_ordered = Append(@, a)]

\* a registry that records the id as seen without appending it
mark_seen_unlisted(s, a) ==
    [s EXCEPT !.seen_allocs = @ \cup {a}]

\* a registry that puts a new id in front of the list
mark_seen_in_front(s, a) ==
    [s EXCEPT !.seen_allocs = @ \cup {a}, !.allocs_ordered = <<a>> \o @]

\* lines 53-54
mark_seen(s, a) ==
    [s EXCEPT !.seen_allocs = @ \cup {a}, !.allocs_ordered = Append(@, a)]

\* line 64: the index returned by the first request
first_index(s, a) == Cardinality(s.seen_allocs) - 1

\* lines 66-69: the index returned for an already seen id
seen_index(s, a) == position(s.allocs_ordered, a)

Frame(a) == [id |-> a, ptrs |-> provenance_ptrs(global_alloc[a]), k |-> 1]

\* a return of get_index_and_populate_allocs at call depth d (0 = called by serialize)
\* f: the call took the branch of line 52 (first request for a)
Returns(t, a, idx, d, f) ==
    /\ returned' = [returned EXCEPT ![t] = @ \cup {<<a, idx>>}]
    /\ ev' = [op |-> "return", t |-> t, id |-> a, index |-> idx, depth |-> d, first |-> f]

\* a first request: lines 52-55, entering the provenance loop
Enter(t, a, rest) ==
    /\ scc' = [scc EXCEPT ![t] = mark_seen(@, a)]
    /\ stack' = [stack EXCEPT ![t] = Append(rest, Frame(a))]
    /\ descents' = [descents EXCEPT ![t][a] = @ + 1]
    /\ ev' = [op |-> "enter", t |-> t, id |-> a, index |-> -1, depth |-> Len(rest),
              first |-> TRUE]
    /\ UNCHANGED returned

\* to_json on a thread with no session: lines 304-307
ToJson(t) ==
    /\ pc[t] = "idle"
    /\ to_json_assert(t)
    /\ TLV' = [TLV EXCEPT ![t] = TRUE]
    /\ scc' = [scc EXCEPT ![t] = DefaultScc]
    /\ pc' = [pc EXCEPT ![t] = "session"]
    /\ returned' = [returned EXCEPT ![t] = {}]
    /\ descents' = [descents EXCEPT ![t] = [a \in AllocId |-> 0]]
    /\ ev' = [op |-> "to_json", t |-> t, id |-> -1, index |-> -1, depth |-> 0, first |-> FALSE]
    /\ UNCHANGED <<global_alloc, stack, visitVars>>

\* to_json called by a Serialize impl while the session is active: line 304 fails
ToJsonNested(t) ==
    /\ pc[t] = "session"
    /\ stack[t] = <<>>
    /\ IF to_json_assert(t)
       THEN /\ scc' = [scc EXCEPT ![t] = DefaultScc]
            /\ pc' = pc
            /\ returned' = [returned EXCEPT ![t] = {}]
            /\ descents' = [descents EXCEPT ![t] = [a \in AllocId |-> 0]]
       ELSE /\ pc' = [pc EXCEPT ![t] = "panicked"]
            /\ UNCHANGED <<scc, returned, descents>>
    /\ ev' = [op |-> "to_json_nested", t |-> t, id |-> -1, index |-> -1, depth |-> 0, first |-> FALSE]
    /\ UNCHANGED <<global_alloc, TLV, stack, visitVars>>

\* a return of to_json that leaves the thread local set
ToJsonReturn_keeps_TLV(t) ==
    /\ pc[t] = "session"
    /\ stack[t] = <<>>
    /\ scc' = [scc EXCEPT ![t] = NoScc]
    /\ pc' = [pc EXCEPT ![t] = "idle"]
    /\ returned' = [returned EXCEPT ![t] = {}]
    /\ descents' = [descents EXCEPT ![t] = [a \in AllocId |-> 0]]
    /\ ev' = [op |-> "to_json_return", t |-> t, id |-> -1, index |-> -1, depth |-> 0, first |-> FALSE]
    /\ UNCHANGED <<global_alloc, TLV, stack, visitVars>>

\* serde_json::to_string returns (Ok or Err): scoped_tls resets TLV, scc is dropped
ToJsonReturn(t) ==
    /\ pc[t] = "session"
    /\ stack[t] = <<>>
    /\ TLV' = [TLV EXCEPT ![t] = FALSE]
    /\ scc' = [scc EXCEPT ![t] = NoScc]
    /\ pc' = [pc EXCEPT ![t] = "idle"]
    /\ returned' = [returned EXCEPT ![t] = {}]
    /\ descents' = [descents EXCEPT ![t] = [a \in AllocId |-> 0]]
    /\ ev' = [op |-> "to_json_return", t |-> t, id |-> -1, index |-> -1, depth |-> 0, first |-> FALSE]
    /\ UNCHANGED <<global_alloc, stack, visitVars>>

\* impl Serialize for AllocId, lines 80-83, for an id not seen yet
SerializeFirst(t, a) ==
    /\ pc[t] = "session"
    /\ stack[t] = <<>>
    /\ cycle_check_assert(t)
    /\ is_first_request(scc[t], a)
    /\ Enter(t, a, <<>>)
    /\ UNCHANGED <<global_alloc, TLV, pc, visitVars>>

\* impl Serialize for AllocId, lines 80-83, for an id already seen
SerializeSeen(t, a) ==
    /\ pc[t] = "session"
    /\ stack[t] = <<>>
    /\ cycle_check_assert(t)
    /\ ~is_first_request(scc[t], a)
    /\ IF seen_index(scc[t], a) < 0
       THEN /\ pc' = [pc EXCEPT ![t] = "panicked"]
            /\ ev' = [op |-> "unwrap_none", t |-> t, id |-> a, index |-> -1, depth |-> 0, first |-> FALSE]
            /\ UNCHANGED returned
       ELSE /\ Returns(t, a, seen_index(scc[t], a), 0, FALSE)
            /\ pc' = pc
    /\ UNCHANGED <<global_alloc, TLV, scc, stack, descents, visitVars>>

\* impl Serialize for AllocId with no session: cycle_check's line 290 fails
SerializeOutside(t, a) ==
    /\ pc[t] = "idle"
    /\ IF cycle_check_assert(t)
       THEN /\ pc' = pc
       ELSE /\ pc' = [pc EXCEPT ![t] = "panicked"]
    /\ ev' = [op |-> "serialize_outside", t |-> t, id |-> a, index |-> -1, depth |-> 0, first |-> FALSE]
    /\ UNCHANGED <<global_alloc, TLV, scc, stack, returned, descents, visitVars>>

\* line 60: the for_each closure calls get_index_and_populate_allocs on the next
\* provenance target, which is new: the callee's frame is pushed
DescendFirst(t) ==
    /\ pc[t] = "session"
    /\ stack[t] # <<>>
    /\ LET n == Len(stack[t])
           top == stack[t][n]
       IN /\ top.k <= Len(top.ptrs)
          /\ is_first_request(scc[t], top.ptrs[top.k])
          /\ Enter(t, top.ptrs[top.k], [stack[t] EXCEPT ![n].k = @ + 1])
    /\ UNCHANGED <<global_alloc, TLV, pc, visitVars>>

\* line 60 on a target already seen: the callee returns its position at once and
\* the closure drops it
DescendSeen(t) ==
    /\ pc[t] = "session"
    /\ stack[t] # <<>>
    /\ LET n == Len(stack[t])
           top == stack[t][n]
       IN /\ top.k <= Len(top.ptrs)
          /\ ~is_first_request(scc[t], top.ptrs[top.k])
          /\ stack' = [stack EXCEPT ![t][n].k = @ + 1]
          /\ IF seen_index(scc[t], top.ptrs[top.k]) < 0
             THEN /\ pc' = [pc EXCEPT ![t] = "panicked"]
                  /\ ev' = [op |-> "unwrap_none", t |-> t, id |-> top.ptrs[top.k],
                            index |-> -1, depth |-> n, first |-> FALSE]
                  /\ UNCHANGED returned
             ELSE /\ Returns(t, top.ptrs[top.k], seen_index(scc[t], top.ptrs[top.k]), n, FALSE)
                  /\ pc' = pc
    /\ UNCHANGED <<global_alloc, TLV, scc, descents, visitVars>>

\* line 64: the provenance loop of the top frame is done, the first request returns
ReturnFirst(t) ==
    /\ pc[t] = "session"
    /\ stack[t] # <<>>
    /\ LET n == Len(stack[t])
           top == stack[t][n]
       IN /\ top.k > Len(top.ptrs)
          /\ stack' = [stack EXCEPT ![t] = SubSeq(@, 1, n - 1)]
          /\ Returns(t, top.id, first_index(scc[t], top.id), n - 1, TRUE)
    /\ UNCHANGED <<global_alloc, TLV, scc, pc, descents, visitVars>>

----------------------------------------------------------------------------
(* mir/visit.rs: what a traversal records *)

\* PlaceContext and its three constants
MUTATING_unset == [is_mut |-> FALSE]

MUTATING == [is_mut |-> TRUE]

NON_MUTATING == [is_mut |-> FALSE]

NON_USE == [is_mut |-> FALSE]

is_mutating(ptx) == ptx.is_mut

Span == 1..NumSpans

Location(span) == [span |-> span]

\* a visit method that takes no context / no location
NoPtx == [none |-> TRUE]

NoLoc == [span |-> 0]

\* one call of a visit method: the method, the super method (or caller) that
\* issued it, its item, its context and its location
Call(op, from, arg, ptx, loc) ==
    [op |-> op, from |-> from, arg |-> arg, ptx |-> ptx, loc |-> loc]

\* a traversal that returned
Ok(calls) == [calls |-> calls, panicked |-> FALSE]

\* todo!()
Todo == [calls |-> <<>>, panicked |-> TRUE]

\* r1; r2 - a panic in r1 unwinds past r2
Then(r1, r2) ==
    IF r1.panicked THEN r1
    ELSE [calls |-> r1.calls \o r2.calls, panicked |-> r2.panicked]

\* a for loop over the results of its iterations
RECURSIVE ThenAll(_)
ThenAll(rs) == IF rs = <<>> THEN Ok(<<>>) ELSE Then(Head(rs), ThenAll(Tail(rs)))

\* visit_X of visitor v (the set of visit methods it overrides): the default
\* body, or an override that runs its own logic and then calls self.super_X
Visit(v, call, super) ==
    Then(Ok(IF call.op \in v
            THEN <<call, Call("override", call.op, call.arg, call.ptx, call.loc)>>
            ELSE <<call>>),
         super)

----------------------------------------------------------------------------
(* mir/visit.rs: types *)

RigidLeaf == {"Bool", "Char", "Int", "Uint", "Float", "Foreign", "Str", "Never"}

RigidOneChild == {"Array", "Pat", "Slice", "RawPtr", "Ref"}

RigidGeneric ==
    {"Adt", "FnDef", "FnPtr", "Closure", "Coroutine", "CoroutineWitness", "Tuple"}

AliasKind == {"Projection", "Inherent", "Opaque", "Weak"}

BoundTyKind == {"Anon", "Param"}

\* the types nested in a type: generic arguments, element or pointee types
InnerTy == {"Bool", "Int"}

TyOf(tykind, variant, inner, binders) ==
    [tykind |-> tykind, variant |-> variant, inner |-> inner, binders |-> binders]

Ty ==
    {TyOf("RigidTy", r, <<>>, 0) : r \in RigidLeaf}
    \cup {TyOf("RigidTy", r, <<i>>, 0) : r \in RigidOneChild, i \in InnerTy}
    \cup UNION {{TyOf("RigidTy", r, i, 0) : r \in RigidGeneric, i \in [1..k -> InnerTy]} :
                k \in 0..MaxTyArgs}
    \cup {[tykind |-> "RigidTy", variant |-> "Dynamic", inner |-> <<>>, binders |-> b,
           region |-> "ReErased"] : b \in 0..MaxBinders}
    \cup UNION {{TyOf("Alias", a, i, 0) : a \in AliasKind, i \in [1..k -> InnerTy]} :
                k \in 0..MaxTyArgs}
    \cup {TyOf("Param", "Param", <<>>, 0)}
    \cup {TyOf("Bound", b, <<>>, 0) : b \in BoundTyKind}

visit_span(v, span, from) ==
    Visit(v, Call("visit_span", from, span, NoPtx, NoLoc),
          Ok(<<>>))

super_region == Ok(<<>>)

visit_region(v, region, loc, from) ==
    Visit(v, Call("visit_region", from, region, NoPtx, loc),
          super_region)

super_binder == Ok(<<>>)

visit_binder(v, i, from) ==
    Visit(v, Call("visit_binder", from, i, NoPtx, NoLoc),
          super_binder)

\* the rigid types visited without a super method
visit_rigid_leaf(v, op, ty, from) ==
    Visit(v, Call(op, from, ty, NoPtx, NoLoc),
          Ok(<<>>))

\* todo!() is commented out
super_adt == Ok(<<>>)

\* a descent that visits the element type
super_array_visits_elem ==
    Ok(<<Call("visit_ty", "super_array", TyOf("RigidTy", "Bool", <<>>, 0), NoPtx, NoLoc)>>)

\* todo!() is commented out
super_array == Ok(<<>>)

super_pat == Todo

super_slice == Todo

\* todo!() is commented out
super_raw_ptr == Ok(<<>>)

\* todo!() is commented out
super_ref == Ok(<<>>)

\* todo!() is commented out
super_fn_def == Ok(<<>>)

super_fn_ptr == Todo

super_closure == Todo

super_coroutine == Todo

\* todo!() is commented out
super_tuple == Ok(<<>>)

super_coroutine_witness == Todo

super_dynamic(v, ty, loc) ==
    Then(ThenAll([i \in 1..ty.binders |-> visit_binder(v, i, "super_dynamic")]),
         visit_region(v, ty.region, loc, "super_dynamic"))

visit_dynamic(v, ty, loc, from) ==
    Visit(v, Call("visit_dynamic", from, ty, NoPtx, loc),
          super_dynamic(v, ty, loc))

\* visit_adt .. visit_coroutine_witness: each calls its super method
visit_rigid_composite(v, op, super, ty, from) ==
    Visit(v, Call(op, from, ty, NoPtx, NoLoc),
          super)

super_rigid_ty(v, ty, loc) ==
    LET f == "super_rigid_ty" IN
    CASE ty.variant = "Bool" -> visit_rigid_leaf(v, "visit_bool", ty, f)
      [] ty.variant = "Char" -> visit_rigid_leaf(v, "visit_char", ty, f)
      [] ty.variant = "Int" -> visit_rigid_leaf(v, "visit_int", ty, f)
      [] ty.variant = "Uint" -> visit_rigid_leaf(v, "visit_uint", ty, f)
      [] ty.variant = "Float" -> visit_rigid_leaf(v, "visit_float", ty, f)
      [] ty.variant = "Adt" -> visit_rigid_composite(v, "visit_adt", super_adt, ty, f)
      [] ty.variant = "Foreign" -> visit_rigid_leaf(v, "visit_foreign", ty, f)
      [] ty.variant = "Str" -> visit_rigid_leaf(v, "visit_str", ty, f)
      [] ty.variant = "Array" -> visit_rigid_composite(v, "visit_array", super_array, ty, f)
      [] ty.variant = "Pat" -> visit_rigid_composite(v, "visit_pat", super_pat, ty, f)
      [] ty.variant = "Slice" -> visit_rigid_composite(v, "visit_slice", super_slice, ty, f)
      [] ty.variant = "RawPtr" ->
            visit_rigid_composite(v, "visit_raw_ptr", super_raw_ptr, ty, f)
      [] ty.variant = "Ref" -> visit_rigid_composite(v, "visit_ref", super_ref, ty, f)
      [] ty.variant = "FnDef" -> visit_rigid_composite(v, "visit_fn_def", super_fn_def, ty, f)
      [] ty.variant = "FnPtr" -> visit_rigid_composite(v, "visit_fn_ptr", super_fn_ptr, ty, f)
      [] ty.variant = "Closure" ->
            visit_rigid_composite(v, "visit_closure", super_closure, ty, f)
      [] ty.variant = "Coroutine" ->
            visit_rigid_composite(v, "visit_coroutine", super_coroutine, ty, f)
      [] ty.variant = "Dynamic" -> visit_dynamic(v, ty, loc, f)
      [] ty.variant = "Never" -> visit_rigid_leaf(v, "visit_never", ty, f)
      [] ty.variant = "Tuple" -> visit_rigid_composite(v, "visit_tuple", super_tuple, ty, f)
      [] ty.variant = "CoroutineWitness" ->
            visit_rigid_composite(v, "visit_coroutine_witness", super_coroutine_witness, ty, f)

visit_rigid_ty(v, ty, loc, from) ==
    Visit(v, Call("visit_rigid_ty", from, ty, NoPtx, loc),
          super_rigid_ty(v, ty, loc))

super_alias_projection == Todo

super_alias_inherent == Todo

super_alias_opaque == Todo

super_alias_weak == Todo

visit_alias(v, op, super, ty, from) ==
    Visit(v, Call(op, from, ty, NoPtx, NoLoc),
          super)

super_alias_ty(v, ty) ==
    LET f == "super_alias_ty" IN
    CASE ty.variant = "Projection" ->
            visit_alias(v, "visit_alias_projection", super_alias_projection, ty, f)
      [] ty.variant = "Inherent" ->
            visit_alias(v, "visit_alias_inherent", super_alias_inherent, ty, f)
      [] ty.variant = "Opaque" ->
            visit_alias(v, "visit_alias_opaque", super_alias_opaque, ty, f)
      [] ty.variant = "Weak" ->
            visit_alias(v, "visit_alias_weak", super_alias_weak, ty, f)

visit_alias_ty(v, ty, loc, from) ==
    Visit(v, Call("visit_alias_ty", from, ty, NoPtx, loc),
          super_alias_ty(v, ty))

super_param_ty == Ok(<<>>)

visit_param_ty(v, ty, from) ==
    Visit(v, Call("visit_param_ty", from, ty, NoPtx, NoLoc),
          super_param_ty)

super_bound_ty_param == Ok(<<>>)

visit_bound_ty_param(v, ty, from) ==
    Visit(v, Call("visit_bound_ty_param", from, ty, NoPtx, NoLoc),
          super_bound_ty_param)

visit_bound_ty_anon(v, ty, from) ==
    Visit(v, Call("visit_bound_ty_anon", from, ty, NoPtx, NoLoc),
          Ok(<<>>))

super_bound_ty_kind(v, ty) ==
    IF ty.variant = "Anon"
    THEN visit_bound_ty_anon(v, ty, "super_bound_ty_kind")
    ELSE visit_bound_ty_param(v, ty, "super_bound_ty_kind")

visit_bound_ty_kind(v, ty, from) ==
    Visit(v, Call("visit_bound_ty_kind", from, ty, NoPtx, NoLoc),
          super_bound_ty_kind(v, ty))

super_bound_ty(v, ty) == visit_bound_ty_kind(v, ty, "super_bound_ty")

visit_bound_ty(v, ty, from) ==
    Visit(v, Call("visit_bound_ty", from, ty, NoPtx, NoLoc),
          super_bound_ty(v, ty))

super_ty_kind(v, ty, loc) ==
    LET f == "super_ty_kind" IN
    CASE ty.tykind = "RigidTy" -> visit_rigid_ty(v, ty, loc, f)
      [] ty.tykind = "Alias" -> visit_alias_ty(v, ty, loc, f)
      [] ty.tykind = "Param" -> visit_param_ty(v, ty, f)
      [] ty.tykind = "Bound" -> visit_bound_ty(v, ty, f)

visit_ty_kind(v, ty, loc, from) ==
    Visit(v, Call("visit_ty_kind", from, ty, NoPtx, loc),
          super_ty_kind(v, ty, loc))

super_ty == Ok(<<>>)

\* the default body calls super_ty and then visit_ty_kind
visit_ty(v, ty, loc, from) ==
    Then(Visit(v, Call("visit_ty", from, ty, NoPtx, loc), super_ty),
         IF "visit_ty" \in v THEN Ok(<<>>) ELSE visit_ty_kind(v, ty, loc, "visit_ty"))

----------------------------------------------------------------------------
(* mir/visit.rs: places, operands, rvalues *)

visit_local(v, local, ptx, loc, from) ==
    Visit(v, Call("visit_local", from, local, ptx, loc),
          Ok(<<>>))

super_projection_elem(v, elem, ptx, loc) ==
    LET f == "super_projection_elem" IN
    CASE elem.elem = "Deref" -> Ok(<<>>)
      [] elem.elem = "Field" -> visit_ty(v, elem.ty, loc, f)
      [] elem.elem = "Index" -> visit_local(v, elem.local, ptx, loc, f)
      [] elem.elem = "ConstantIndex" -> Ok(<<>>)
      [] elem.elem = "Subslice" -> Ok(<<>>)
      [] elem.elem = "Downcast" -> Ok(<<>>)
      [] elem.elem = "OpaqueCast" -> visit_ty(v, elem.ty, loc, f)
      [] elem.elem = "Subtype" -> visit_ty(v, elem.ty, loc, f)

visit_projection_elem(v, place_ref, elem, ptx, loc, from) ==
    Visit(v, Call("visit_projection_elem", from, [place_ref |-> place_ref, elem |-> elem], ptx, loc),
          super_projection_elem(v, elem, ptx, loc))

\* a partial place that includes the step at idx itself
PlaceRef_through_step(place, idx) ==
    [local |-> place.local, projection |-> SubSeq(place.projection, 1, idx + 1)]

\* PlaceRef { local, projection: &place.projection[..idx] }
PlaceRef(place, idx) ==
    [local |-> place.local, projection |-> SubSeq(place.projection, 1, idx)]

super_place(v, place, ptx, loc) ==
    Then(visit_local(v, place.local, ptx, loc, "super_place"),
         ThenAll([i \in 1..Len(place.projection) |->
                    visit_projection_elem(v, PlaceRef(place, i - 1), place.projection[i],
                                          ptx, loc, "super_place")]))

visit_place(v, place, ptx, loc, from) ==
    Visit(v, Call("visit_place", from, place, ptx, loc),
          super_place(v, place, ptx, loc))

super_const(v, const, loc) == visit_ty(v, const.ty, loc, "super_const")

visit_const(v, const, loc, from) ==
    Visit(v, Call("visit_const", from, const, NoPtx, loc),
          super_const(v, const, loc))

super_constant(v, constant, loc) ==
    Then(visit_span(v, constant.span, "super_constant"),
         visit_const(v, constant.literal, loc, "super_constant"))

visit_constant(v, constant, loc, from) ==
    Visit(v, Call("visit_constant", from, constant, NoPtx, loc),
          super_constant(v, constant, loc))

super_operand(v, operand, loc) ==
    IF operand.operand \in {"Copy", "Move"}
    THEN visit_place(v, operand.place, NON_MUTATING, loc, "super_operand")
    ELSE visit_constant(v, operand.constant, loc, "super_operand")

visit_operand(v, operand, loc, from) ==
    Visit(v, Call("visit_operand", from, operand, NoPtx, loc),
          super_operand(v, operand, loc))

\* for op in operands { self.visit_operand(op, location) }
visit_operands(v, operands, loc, from) ==
    ThenAll([i \in 1..Len(operands) |-> visit_operand(v, operands[i], loc, from)])

\* a context that is non-mutating whatever the pointer's mutability
pcx_non_mutating(is_mut) == [is_mut |-> FALSE]

\* let pcx = PlaceContext { is_mut: .. } of the AddressOf and Ref arms
pcx(is_mut) == [is_mut |-> is_mut]

super_rvalue(v, rvalue, loc) ==
    LET f == "super_rvalue" IN
    CASE rvalue.rvalue = "AddressOf" ->
            visit_place(v, rvalue.place, pcx(rvalue.mutability = "Mut"), loc, f)
      [] rvalue.rvalue = "Aggregate" -> visit_operands(v, rvalue.operands, loc, f)
      [] rvalue.rvalue \in {"BinaryOp", "CheckedBinaryOp"} ->
            Then(visit_operand(v, rvalue.lhs, loc, f), visit_operand(v, rvalue.rhs, loc, f))
      [] rvalue.rvalue = "Cast" ->
            Then(visit_operand(v, rvalue.op, loc, f), visit_ty(v, rvalue.ty, loc, f))
      [] rvalue.rvalue \in {"CopyForDeref", "Discriminant", "Len"} ->
            visit_place(v, rvalue.place, NON_MUTATING, loc, f)
      [] rvalue.rvalue = "Ref" ->
            Then(visit_region(v, rvalue.region, loc, f),
                 visit_place(v, rvalue.place, pcx(rvalue.kind = "Mut"), loc, f))
      [] rvalue.rvalue = "Repeat" ->
            Then(visit_operand(v, rvalue.op, loc, f), visit_const(v, rvalue.const, loc, f))
      [] rvalue.rvalue = "ShallowInitBox" ->
            Then(visit_ty(v, rvalue.ty, loc, f), visit_operand(v, rvalue.op, loc, f))
      [] rvalue.rvalue = "ThreadLocalRef" -> Ok(<<>>)
      [] rvalue.rvalue = "NullaryOp" -> visit_ty(v, rvalue.ty, loc, f)
      [] rvalue.rvalue \in {"UnaryOp", "Use"} -> visit_operand(v, rvalue.op, loc, f)

visit_rvalue(v, rvalue, loc, from) ==
    Visit(v, Call("visit_rvalue", from, rvalue, NoPtx, loc),
          super_rvalue(v, rvalue, loc))

----------------------------------------------------------------------------
(* mir/visit.rs: statements and terminators *)

super_user_type_projection == Ok(<<>>)

visit_user_type_projection(v, projection, from) ==
    Visit(v, Call("visit_user_type_projection", from, projection, NoPtx, NoLoc),
          super_user_type_projection)

\* fn visit_opaque(_: &Opaque) {}
visit_opaque == Ok(<<>>)

super_statement(v, stmt, loc) ==
    LET f == "super_statement"
        kind == stmt.kind
    IN Then(visit_span(v, stmt.span, f),
        CASE kind.statement = "Assign" ->
                Then(visit_place(v, kind.place, MUTATING, loc, f),
                     visit_rvalue(v, kind.rvalue, loc, f))
          [] kind.statement = "FakeRead" -> visit_place(v, kind.place, NON_MUTATING, loc, f)
          [] kind.statement = "SetDiscriminant" -> visit_place(v, kind.place, MUTATING, loc, f)
          [] kind.statement = "Deinit" -> visit_place(v, kind.place, MUTATING, loc, f)
          [] kind.statement = "StorageLive" -> visit_local(v, kind.local, NON_USE, loc, f)
          [] kind.statement = "StorageDead" -> visit_local(v, kind.local, NON_USE, loc, f)
          [] kind.statement = "Retag" -> visit_place(v, kind.place, MUTATING, loc, f)
          [] kind.statement = "PlaceMention" ->
                visit_place(v, kind.place, NON_MUTATING, loc, f)
          [] kind.statement = "AscribeUserType" ->
                Then(visit_place(v, kind.place, NON_USE, loc, f),
                     visit_user_type_projection(v, kind.projections, f))
          [] kind.statement = "Coverage" -> visit_opaque
          [] kind.statement = "Assume" -> visit_operand(v, kind.op, loc, f)
          [] kind.statement = "CopyNonOverlapping" ->
                Then(visit_operand(v, kind.src, loc, f),
                     Then(visit_operand(v, kind.dst, loc, f),
                          visit_operand(v, kind.count, loc, f)))
          [] kind.statement = "ConstEvalCounter" -> Ok(<<>>)
          [] kind.statement = "Nop" -> Ok(<<>>))

visit_statement(v, stmt, loc, from) ==
    Visit(v, Call("visit_statement", from, stmt, NoPtx, loc),
          super_statement(v, stmt, loc))

super_assert_msg(v, msg, loc) ==
    LET f == "super_assert_msg" IN
    CASE msg.msg \in {"BoundsCheck", "Overflow", "MisalignedPointerDereference"} ->
            Then(visit_operand(v, msg.left, loc, f), visit_operand(v, msg.right, loc, f))
      [] msg.msg \in {"OverflowNeg", "DivisionByZero", "RemainderByZero"} ->
            visit_operand(v, msg.op, loc, f)
      [] msg.msg \in {"ResumedAfterReturn", "ResumedAfterPanic"} -> Ok(<<>>)

visit_assert_msg(v, msg, loc, from) ==
    Visit(v, Call("visit_assert_msg", from, msg, NoPtx, loc),
          super_assert_msg(v, msg, loc))

RETURN_LOCAL == 0

\* one InlineAsmOperand { in_value, out_place, raw_rpr: _ }
visit_inline_asm_operand(v, op, loc, from) ==
    Then(IF op.in_value # <<>> THEN visit_operand(v, op.in_value[1], loc, from) ELSE Ok(<<>>),
         IF op.out_place # <<>> THEN visit_place(v, op.out_place[1], MUTATING, loc, from)
         ELSE Ok(<<>>))

super_terminator(v, term, loc) ==
    LET f == "super_terminator"
        kind == term.kind
    IN Then(visit_span(v, term.span, f),
        CASE kind.terminator \in {"Goto", "Resume", "Abort", "Unreachable"} -> Ok(<<>>)
          [] kind.terminator = "Assert" ->
                Then(visit_operand(v, kind.cond, loc, f),
                     visit_assert_msg(v, kind.msg, loc, f))
          [] kind.terminator = "Drop" -> visit_place(v, kind.place, MUTATING, loc, f)
          [] kind.terminator = "Call" ->
                Then(visit_operand(v, kind.func, loc, f),
                     Then(visit_operands(v, kind.args, loc, f),
                          visit_place(v, kind.destination, MUTATING, loc, f)))
          [] kind.terminator = "InlineAsm" ->
                ThenAll([i \in 1..Len(kind.operands) |->
                           visit_inline_asm_operand(v, kind.operands[i], loc, f)])
          [] kind.terminator = "Return" -> visit_local(v, RETURN_LOCAL, NON_MUTATING, loc, f)
          [] kind.terminator = "SwitchInt" -> visit_operand(v, kind.discr, loc, f))

visit_terminator(v, term, loc, from) ==
    Visit(v, Call("visit_terminator", from, term, NoPtx, loc),
          super_terminator(v, term, loc))

----------------------------------------------------------------------------
(* mir/visit.rs: bodies *)

super_var_debug_info(v, info) ==
    LET f == "super_var_debug_info"
        loc == Location(info.span)
    IN Then(visit_span(v, info.span, f),
        Then(IF info.composite # <<>> THEN visit_ty(v, info.composite[1], loc, f)
             ELSE Ok(<<>>),
             IF info.value.contents = "Place"
             THEN visit_place(v, info.value.place, NON_USE, loc, f)
             ELSE visit_const(v, info.value.const, loc, f)))

visit_var_debug_info(v, info, from) ==
    Visit(v, Call("visit_var_debug_info", from, info, NoPtx, NoLoc),
          super_var_debug_info(v, info))

super_local_decl(v, local, decl) ==
    visit_ty(v, decl.ty, Location(decl.span), "super_local_decl")

super_ret_decl(v, local, decl) == super_local_decl(v, local, decl)

super_arg_decl(v, local, decl) == super_local_decl(v, local, decl)

visit_local_decl(v, local, decl, from) ==
    Visit(v, Call("visit_local_decl", from, [local |-> local, decl |-> decl], NoPtx, NoLoc),
          super_local_decl(v, local, decl))

visit_ret_decl(v, local, decl, from) ==
    Visit(v, Call("visit_ret_decl", from, [local |-> local, decl |-> decl], NoPtx, NoLoc),
          super_ret_decl(v, local, decl))

visit_arg_decl(v, local, decl, from) ==
    Visit(v, Call("visit_arg_decl", from, [local |-> local, decl |-> decl], NoPtx, NoLoc),
          super_arg_decl(v, local, decl))

super_basic_block_no_terminator(v, bb) ==
    LET f == "super_basic_block" IN
    ThenAll([i \in 1..Len(bb.statements) |->
               visit_statement(v, bb.statements[i], Location(bb.statements[i].span), f)])

super_basic_block(v, bb) ==
    LET f == "super_basic_block" IN
    Then(ThenAll([i \in 1..Len(bb.statements) |->
                    visit_statement(v, bb.statements[i],
                                    Location(bb.statements[i].span), f)]),
         visit_terminator(v, bb.terminator, Location(bb.terminator.span), f))

visit_basic_block(v, bb, from) ==
    Visit(v, Call("visit_basic_block", from, bb, NoPtx, NoLoc),
          super_basic_block(v, bb))

\* Body::ret_local, arg_locals, inner_locals
ret_local(body) == body.locals[1]

arg_locals(body) == SubSeq(body.locals, 2, body.arg_count + 1)

inner_locals(body) == SubSeq(body.locals, body.arg_count + 2, Len(body.locals))

\* a numbering of the interior locals that starts at arg_count
local_start_at_arg_count(body) == body.arg_count

\* let local_start = arg_count + 1
local_start(body) == body.arg_count + 1

super_body(v, body) ==
    LET f == "super_body"
    IN Then(ThenAll([i \in 1..Len(body.blocks) |-> visit_basic_block(v, body.blocks[i], f)]),
        Then(visit_ret_decl(v, RETURN_LOCAL, ret_local(body), f),
        Then(ThenAll([i \in 1..Len(arg_locals(body)) |->
                        visit_arg_decl(v, (i - 1) + 1, arg_locals(body)[i], f)]),
        Then(ThenAll([i \in 1..Len(inner_locals(body)) |->
                        visit_local_decl(v, (i - 1) + local_start(body), inner_locals(body)[i], f)]),
        Then(ThenAll([i \in 1..Len(body.var_debug_info) |->
                        visit_var_debug_info(v, body.var_debug_info[i], f)]),
             visit_span(v, body.span, f))))))

visit_body(v, body, from) ==
    Visit(v, Call("visit_body", from, body, NoPtx, NoLoc),
          super_body(v, body))

----------------------------------------------------------------------------
(* The MIR items the traversals are run on *)

SeqsOf(S, lo, hi) == UNION {[1..k -> S] : k \in lo..hi}

BoolTy == TyOf("RigidTy", "Bool", <<>>, 0)

FnPtrTy == TyOf("RigidTy", "FnPtr", <<>>, 0)

\* the types MIR items carry: one that is descended into, one that is not implemented
MirTy == {BoolTy, FnPtrTy}

Local == 0..MaxLocal

ProjectionElem ==
    {[elem |-> e] : e \in {"Deref", "ConstantIndex", "Subslice", "Downcast"}}
    \cup {[elem |-> e, ty |-> t] : e \in {"Field", "OpaqueCast", "Subtype"}, t \in MirTy}
    \cup {[elem |-> "Index", local |-> l] : l \in Local}

Place == {[local |-> l, projection |-> p] : l \in Local, p \in SeqsOf(ProjectionElem, 0, MaxProj)}

PlaceContext == {MUTATING, NON_MUTATING, NON_USE}

\* the places statements, terminators and rvalues are built from
MirPlace ==
    {[local |-> 0, projection |-> <<>>],
     [local |-> 1, projection |-> <<[elem |-> "Deref"]>>],
     [local |-> 1, projection |-> <<[elem |-> "Field", ty |-> FnPtrTy]>>]}

Const == {[ty |-> t] : t \in MirTy}

Constant == {[span |-> 1, literal |-> c] : c \in Const}

Operand ==
    {[operand |-> o, place |-> p] : o \in {"Copy", "Move"}, p \in MirPlace}
    \cup {[operand |-> "Constant", constant |-> c] : c \in Constant}

\* the operands compound items are built from
MirOperand ==
    {[operand |-> "Copy", place |-> [local |-> 0, projection |-> <<>>]],
     [operand |-> "Move", place |-> [local |-> 1, projection |-> <<[elem |-> "Deref"]>>]]}
    \cup {[operand |-> "Constant", constant |-> c] : c \in Constant}

Mutability == {"Not", "Mut"}

BorrowKind == {"Shared", "Fake", "Mut"}

Rvalue ==
    {[rvalue |-> "AddressOf", mutability |-> m, place |-> p] : m \in Mutability, p \in MirPlace}
    \cup {[rvalue |-> "Aggregate", operands |-> o] : o \in SeqsOf(MirOperand, 0, MaxOperands)}
    \cup {[rvalue |-> r, lhs |-> a, rhs |-> b] :
            r \in {"BinaryOp", "CheckedBinaryOp"}, a \in MirOperand, b \in MirOperand}
    \cup {[rvalue |-> "Cast", op |-> o, ty |-> t] : o \in MirOperand, t \in MirTy}
    \cup {[rvalue |-> r, place |-> p] :
            r \in {"CopyForDeref", "Discriminant", "Len"}, p \in MirPlace}
    \cup {[rvalue |-> "Ref", region |-> "ReErased", kind |-> k, place |-> p] :
            k \in BorrowKind, p \in MirPlace}
    \cup {[rvalue |-> "Repeat", op |-> o, const |-> c] : o \in MirOperand, c \in Const}
    \cup {[rvalue |-> "ShallowInitBox", op |-> o, ty |-> t] : o \in MirOperand, t \in MirTy}
    \cup {[rvalue |-> "ThreadLocalRef"]}
    \cup {[rvalue |-> "NullaryOp", ty |-> t] : t \in MirTy}
    \cup {[rvalue |-> r, op |-> o] : r \in {"UnaryOp", "Use"}, o \in MirOperand}

StatementKind ==
    {[statement |-> "Assign", place |-> p, rvalue |-> r] : p \in MirPlace, r \in Rvalue}
    \cup {[statement |-> k, place |-> p] :
            k \in {"FakeRead", "SetDiscriminant", "Deinit", "Retag", "PlaceMention"},
            p \in MirPlace}
    \cup {[statement |-> k, local |-> l] : k \in {"StorageLive", "StorageDead"}, l \in Local}
    \cup {[statement |-> "AscribeUserType", place |-> p, projections |-> "UserTypeProjection"] :
            p \in MirPlace}
    \cup {[statement |-> k] : k \in {"Coverage", "ConstEvalCounter", "Nop"}}
    \cup {[statement |-> "Assume", op |-> o] : o \in MirOperand}
    \cup {[statement |-> "CopyNonOverlapping", src |-> a, dst |-> b, count |-> c] :
            a \in MirOperand, b \in MirOperand, c \in MirOperand}

Statement == {[kind |-> k, span |-> sp] : k \in StatementKind, sp \in Span}

\* the operands assert messages are built from
MsgOperand ==
    {[operand |-> "Copy", place |-> [local |-> 0, projection |-> <<>>]],
     [operand |-> "Constant", constant |-> [span |-> 1, literal |-> [ty |-> FnPtrTy]]]}

AssertMessage ==
    {[msg |-> m, left |-> a, right |-> b] :
        m \in {"BoundsCheck", "Overflow", "MisalignedPointerDereference"},
        a \in MsgOperand, b \in MsgOperand}
    \cup {[msg |-> m, op |-> a] :
            m \in {"OverflowNeg", "DivisionByZero", "RemainderByZero"}, a \in MsgOperand}
    \cup {[msg |-> m] : m \in {"ResumedAfterReturn", "ResumedAfterPanic"}}

InlineAsmOperand ==
    {[in_value |-> i, out_place |-> o] :
        i \in {<<>>, <<[operand |-> "Constant",
                        constant |-> [span |-> 1, literal |-> [ty |-> FnPtrTy]]]>>},
        o \in {<<>>, <<[local |-> 0, projection |-> <<>>]>>}}

TerminatorKind ==
    {[terminator |-> k] : k \in {"Goto", "Resume", "Abort", "Unreachable", "Return"}}
    \cup {[terminator |-> "Assert", cond |-> c, msg |-> m] : c \in MirOperand, m \in AssertMessage}
    \cup {[terminator |-> "Drop", place |-> p] : p \in MirPlace}
    \cup {[terminator |-> "Call", func |-> f, args |-> a, destination |-> d] :
            f \in MirOperand, a \in SeqsOf(MirOperand, 0, MaxOperands), d \in MirPlace}
    \cup {[terminator |-> "InlineAsm", operands |-> o] :
            o \in SeqsOf(InlineAsmOperand, 0, MaxOperands)}
    \cup {[terminator |-> "SwitchInt", discr |-> d] : d \in MirOperand}

Terminator == {[kind |-> k, span |-> sp] : k \in TerminatorKind, sp \in Span}

VarDebugInfo ==
    {[span |-> 1, composite |-> c, value |-> val] :
        c \in {<<>>, <<BoolTy>>},
        val \in {[contents |-> "Place", place |-> p] : p \in MirPlace}
                \cup {[contents |-> "Const", const |-> [ty |-> BoolTy]]}}

LocalDecl == {[ty |-> t, span |-> 1] : t \in MirTy}

\* the statements and terminators the blocks of a body are built from
BodyStatement ==
    {[kind |-> [statement |-> "Assign", place |-> [local |-> 0, projection |-> <<>>],
                rvalue |-> [rvalue |-> "Use",
                            op |-> [operand |-> "Copy",
                                    place |-> [local |-> 1, projection |-> <<>>]]]],
      span |-> 1],
     [kind |-> [statement |-> "Assign", place |-> [local |-> 0, projection |-> <<>>],
                rvalue |-> [rvalue |-> "Cast",
                            op |-> [operand |-> "Copy",
                                    place |-> [local |-> 1, projection |-> <<>>]],
                            ty |-> FnPtrTy]],
      span |-> 2]}

BodyTerminator == {[kind |-> [terminator |-> "Return"], span |-> 2]}

BasicBlock ==
    {[statements |-> ss, terminator |-> t] :
        ss \in SeqsOf(BodyStatement, 0, MaxStmts), t \in BodyTerminator}

BodyOf(blocks, locals, arg_count, infos) ==
    [blocks |-> blocks, locals |-> locals, arg_count |-> arg_count,
     var_debug_info |-> infos, span |-> 1]

PlainDecl == [ty |-> BoolTy, span |-> 1]

PlainBlock == [statements |-> <<>>, terminator |-> [kind |-> [terminator |-> "Return"], span |-> 1]]

\* bodies that differ in their blocks
BodiesOfBlocks ==
    {BodyOf(bs, <<PlainDecl, PlainDecl, PlainDecl>>, 1, <<>>) :
        bs \in SeqsOf(BasicBlock, 1, MaxBlocks)}

\* bodies of arg_count = a argument locals and i interior locals
BodiesOfLocals(a, i) ==
    {BodyOf(<<PlainBlock>>, ls, a, <<>>) : ls \in [1..(1 + a + i) -> LocalDecl]}

\* bodies that differ in their debug info
BodiesOfDebugInfo ==
    {BodyOf(<<PlainBlock>>, <<PlainDecl>>, 0, infos) :
        infos \in SeqsOf(VarDebugInfo, 0, MaxDebugInfo)}

\* the visit methods of the MIR items, and those of the types
MirVisitOps ==
    {"visit_body", "visit_basic_block", "visit_ret_decl", "visit_arg_decl", "visit_local_decl",
     "visit_statement", "visit_terminator", "visit_span", "visit_place",
     "visit_projection_elem", "visit_local", "visit_rvalue", "visit_operand",
     "visit_user_type_projection", "visit_ty", "visit_ty_kind", "visit_binder",
     "visit_constant", "visit_const", "visit_region", "visit_assert_msg",
     "visit_var_debug_info"}

TyVisitOps ==
    {"visit_ty", "visit_ty_kind", "visit_binder", "visit_region", "visit_rigid_ty",
     "visit_bool", "visit_char", "visit_int", "visit_uint", "visit_float", "visit_adt",
     "visit_foreign", "visit_str", "visit_array", "visit_pat", "visit_slice", "visit_raw_ptr",
     "visit_ref", "visit_fn_def", "visit_fn_ptr", "visit_closure", "visit_coroutine",
     "visit_dynamic", "visit_never", "visit_tuple", "visit_coroutine_witness",
     "visit_alias_ty", "visit_alias_projection", "visit_alias_inherent", "visit_alias_opaque",
     "visit_alias_weak", "visit_param_ty", "visit_bound_ty", "visit_bound_ty_kind",
     "visit_bound_ty_anon", "visit_bound_ty_param"}

\* visit_X calls self.super_X
super_of ==
    [visit_body |-> "super_body", visit_basic_block |-> "super_basic_block",
     visit_ret_decl |-> "super_ret_decl", visit_arg_decl |-> "super_arg_decl",
     visit_local_decl |-> "super_local_decl", visit_statement |-> "super_statement",
     visit_terminator |-> "super_terminator", visit_span |-> "super_span",
     visit_place |-> "super_place", visit_projection_elem |-> "super_projection_elem",
     visit_rvalue |-> "super_rvalue", visit_operand |-> "super_operand",
     visit_user_type_projection |-> "super_user_type_projection",
     visit_ty |-> "super_ty", visit_ty_kind |-> "super_ty_kind",
     visit_binder |-> "super_binder", visit_constant |-> "super_constant",
     visit_const |-> "super_const", visit_region |-> "super_region",
     visit_assert_msg |-> "super_assert_msg",
     visit_var_debug_info |-> "super_var_debug_info"]

BodyVisitOps ==
    {"visit_body", "visit_basic_block", "visit_statement", "visit_terminator", "visit_ty"}

\* a visitor overrides nothing, or one visit method (and calls its super method)
VisitorsOf(ops) == {{}} \cup {{op} : op \in ops}

----------------------------------------------------------------------------
(* Running a traversal: the caller hands an item to its visit method *)

NodeOf(sort, item, v, ptx, loc) ==
    [sort |-> sort, item |-> item, v |-> v, ptx |-> ptx, loc |-> loc]

NotRun == [calls |-> <<>>, panicked |-> FALSE, done |-> FALSE]

Finished(r) == [calls |-> r.calls, panicked |-> r.panicked, done |-> TRUE]

\* the item, the visitor and the arguments the caller chooses
VisitInputs(n) ==
    \/ \E b \in BodiesOfBlocks, v \in VisitorsOf(BodyVisitOps) :
          n = NodeOf("body", b, v, NoPtx, NoLoc)
    \/ \E a \in 0..MaxArgs, i \in 0..MaxInner :
          \E b \in BodiesOfLocals(a, i), v \in VisitorsOf(BodyVisitOps) :
             n = NodeOf("body", b, v, NoPtx, NoLoc)
    \/ \E b \in BodiesOfDebugInfo, v \in VisitorsOf(BodyVisitOps) :
          n = NodeOf("body", b, v, NoPtx, NoLoc)
    \/ \E st \in Statement, v \in VisitorsOf(MirVisitOps) :
          n = NodeOf("statement", st, v, NoPtx, Location(st.span))
    \/ \E t \in Terminator, v \in VisitorsOf(MirVisitOps) :
          n = NodeOf("terminator", t, v, NoPtx, Location(t.span))
    \/ \E i \in VarDebugInfo, v \in VisitorsOf(MirVisitOps) :
          n = NodeOf("var_debug_info", i, v, NoPtx, NoLoc)
    \/ \E r \in Rvalue, v \in VisitorsOf(MirVisitOps) :
          n = NodeOf("rvalue", r, v, NoPtx, Location(1))
    \/ \E o \in Operand, v \in VisitorsOf(MirVisitOps) :
          n = NodeOf("operand", o, v, NoPtx, Location(1))
    \/ \E p \in Place, v \in VisitorsOf({"visit_place", "visit_projection_elem"}),
          ptx \in PlaceContext :
          n = NodeOf("place", p, v, ptx, Location(1))
    \/ \E t \in Ty, v \in VisitorsOf(TyVisitOps) :
          n = NodeOf("ty", t, v, NoPtx, Location(1))

VisitBody ==
    /\ node.sort = "body"
    /\ ~result.done
    /\ result' = Finished(visit_body(node.v, node.item, "caller"))
    /\ UNCHANGED <<node, allocVars>>

VisitStatement ==
    /\ node.sort = "statement"
    /\ ~result.done
    /\ result' = Finished(visit_statement(node.v, node.item, node.loc, "caller"))
    /\ UNCHANGED <<node, allocVars>>

VisitTerminator ==
    /\ node.sort = "terminator"
    /\ ~result.done
    /\ result' = Finished(visit_terminator(node.v, node.item, node.loc, "caller"))
    /\ UNCHANGED <<node, allocVars>>

VisitVarDebugInfo ==
    /\ node.sort = "var_debug_info"
    /\ ~result.done
    /\ result' = Finished(visit_var_debug_info(node.v, node.item, "caller"))
    /\ UNCHANGED <<node, allocVars>>

VisitRvalue ==
    /\ node.sort = "rvalue"
    /\ ~result.done
    /\ result' = Finished(visit_rvalue(node.v, node.item, node.loc, "caller"))
    /\ UNCHANGED <<node, allocVars>>

VisitOperand ==
    /\ node.sort = "operand"
    /\ ~result.done
    /\ result' = Finished(visit_operand(node.v, node.item, node.loc, "caller"))
    /\ UNCHANGED <<node, allocVars>>

VisitPlace ==
    /\ node.sort = "place"
    /\ ~result.done
    /\ result' = Finished(visit_place(node.v, node.item, node.ptx, node.loc, "caller"))
    /\ UNCHANGED <<node, allocVars>>

VisitTy ==
    /\ node.sort = "ty"
    /\ ~result.done
    /\ result' = Finished(visit_ty(node.v, node.item, node.loc, "caller"))
    /\ UNCHANGED <<node, allocVars>>

\* no traversal is running
VisitIdle == node = NodeOf("none", 0, {}, NoPtx, NoLoc) /\ result = NotRun

\* no serialization is running
AllocIdle ==
    /\ global_alloc = [a \in AllocId |-> [kind |-> "Function", ptrs |-> <<>>]]
    /\ TLV = [t \in {"main"} |-> FALSE]
    /\ scc = [t \in {"main"} |-> NoScc]
    /\ stack = [t \in {"main"} |-> <<>>]
    /\ pc = [t \in {"main"} |-> "idle"]
    /\ returned = [t \in {"main"} |-> {}]
    /\ descents = [t \in {"main"} |-> [a \in AllocId |-> 0]]
    /\ ev = NoEvent

InitVisit == VisitInputs(node) /\ result = NotRun /\ AllocIdle

NextVisit ==
    \/ VisitBody
    \/ VisitStatement
    \/ VisitTerminator
    \/ VisitVarDebugInfo
    \/ VisitRvalue
    \/ VisitOperand
    \/ VisitPlace
    \/ VisitTy

SpecVisit == InitVisit /\ [][NextVisit]_vars

----------------------------------------------------------------------------
(* mir/visit.rs: PlaceRef::ty *)

RefTy(t) == TyOf("RigidTy", "Ref", <<t>>, 0)

RawPtrTy(t) == TyOf("RigidTy", "RawPtr", <<t>>, 0)

ArrayTy(t) == TyOf("RigidTy", "Array", <<t>>, 0)

SliceTy(t) == TyOf("RigidTy", "Slice", <<t>>, 0)

\* the declared types of the local a place starts from
DeclTy ==
    {BoolTy, FnPtrTy, RefTy(BoolTy), RawPtrTy(BoolTy), ArrayTy(BoolTy), SliceTy(FnPtrTy),
     RefTy(ArrayTy(BoolTy)), ArrayTy(RefTy(BoolTy)), RefTy(RefTy(BoolTy)),
     RawPtrTy(SliceTy(BoolTy))}

\* Result<Ty, Error>
OkTy(ty) == [ok |-> TRUE, ty |-> ty]

ErrTy(elem, ty) == [ok |-> FALSE, elem |-> elem, ty |-> ty]

\* ProjectionElem::ty: the type one projection step yields on a place of type
\* ty, or the failure of a step that is inapplicable to ty
elem_ty(elem, ty) ==
    CASE elem.elem = "Deref" ->
            IF ty.variant \in {"Ref", "RawPtr"} THEN OkTy(ty.inner[1]) ELSE ErrTy(elem, ty)
      [] elem.elem \in {"Index", "ConstantIndex"} ->
            IF ty.variant \in {"Array", "Slice"} THEN OkTy(ty.inner[1]) ELSE ErrTy(elem, ty)
      [] elem.elem = "Subslice" ->
            IF ty.variant \in {"Array", "Slice"} THEN OkTy(ty) ELSE ErrTy(elem, ty)
      [] elem.elem \in {"Field", "OpaqueCast", "Subtype"} -> OkTy(elem.ty)
      [] elem.elem = "Downcast" -> OkTy(ty)

\* a faulty closure that keeps applying steps after a failure
place_ty_step_after_error(acc, elem) ==
    [res |-> elem_ty(elem, acc.res.ty),
     applied |-> Append(acc.applied, [elem |-> elem, ty |-> acc.res.ty])]

\* |place_ty, elem| elem.ty(place_ty?) - acc.applied lists the calls of elem.ty
place_ty_step(acc, elem) ==
    IF ~acc.res.ok THEN acc
    ELSE [res |-> elem_ty(elem, acc.res.ty),
          applied |-> Append(acc.applied, [elem |-> elem, ty |-> acc.res.ty])]

\* Iterator::fold over the projection
RECURSIVE fold(_, _)
fold(acc, elems) ==
    IF elems = <<>> THEN acc ELSE fold(place_ty_step(acc, Head(elems)), Tail(elems))

\* PlaceRef::ty(&self, locals); locals[self.local] panics out of range
PlaceRef_ty(place_ref, locals) ==
    IF place_ref.local >= Len(locals)
    THEN [panicked |-> TRUE, res |-> OkTy(BoolTy), applied |-> <<>>]
    ELSE LET r == fold([res |-> OkTy(locals[place_ref.local + 1].ty), applied |-> <<>>],
                       place_ref.projection)
         IN [panicked |-> FALSE, res |-> r.res, applied |-> r.applied]

\* locals[local] is declared with type ty, the other locals with bool
LocalsOf(n, local, ty) ==
    [i \in 1..n |-> IF i = local + 1 THEN [ty |-> ty, span |-> 1] ELSE PlainDecl]

PlaceTy ==
    /\ node.sort = "place_ref"
    /\ ~result.done
    /\ LET r == PlaceRef_ty(node.item.place_ref, node.item.locals)
       IN result' = [calls |-> <<>>, panicked |-> r.panicked, done |-> TRUE,
                     res |-> r.res, applied |-> r.applied]
    /\ UNCHANGED <<node, allocVars>>

InitPlaceTy ==
    /\ \E p \in Place, ty \in DeclTy, n \in 1..(MaxLocal + 1) :
          node = NodeOf("place_ref", [place_ref |-> p, locals |-> LocalsOf(n, p.local, ty)],
                        {}, NoPtx, NoLoc)
    /\ result = NotRun
    /\ AllocIdle

NextPlaceTy == PlaceTy

SpecPlaceTy == InitPlaceTy /\ [][NextPlaceTy]_vars

----------------------------------------------------------------------------
(* mir/alloc.rs: read_target_uint, read_target_int *)

\* std::mem::size_of::<u128>() and size_of::<i128>()
SIZE_OF_U128 == 16

Endian == {"Little", "Big"}

ByteVal == {0, 1, 255}

\* the byte slices handed in: b1 first, then b2 up to the length
ByteSlices ==
    UNION {{[i \in 1..len |-> IF i = 1 THEN b1 ELSE b2] : b1 \in ByteVal, b2 \in ByteVal} :
            len \in 0..MaxBytes}

Zeros(n) == [i \in 1..n |-> 0]

Reverse(s) == [i \in 1..Len(s) |-> s[Len(s) + 1 - i]]

\* u128::from_le_bytes / from_be_bytes: the digits of the value in base 256,
\* least significant first
from_le_bytes(buf) == buf

from_be_bytes(buf) == Reverse(buf)

\* <&[u8] as Read>::read_exact into a slice of n bytes
read_exact(bytes, n) == IF n > Len(bytes) THEN "UnexpectedEof" ELSE "Ok"

\* read_target_uint and read_target_int differ in the integer type only.
\* overflow_checks is the build's choice for `16 - bytes.len()`: it panics, or
\* wraps to 2^64 - (len - 16), a start index beyond the buffer.
read_target(bytes, endian, signed, overflow_checks) ==
    LET len == Len(bytes) IN
    IF endian = "Little"
    THEN IF len > SIZE_OF_U128
         THEN [kind |-> "panic", why |-> "range end index out of range"]
         ELSE IF read_exact(bytes, len) # "Ok"
              THEN [kind |-> "err", why |-> read_exact(bytes, len)]
              ELSE [kind |-> "ok", signed |-> signed,
                    value |-> from_le_bytes(bytes \o Zeros(SIZE_OF_U128 - len))]
    ELSE IF len > SIZE_OF_U128
         THEN IF overflow_checks
              THEN [kind |-> "panic", why |-> "attempt to subtract with overflow"]
              ELSE [kind |-> "panic", why |-> "range start index out of range"]
         ELSE IF read_exact(bytes, len) # "Ok"
              THEN [kind |-> "err", why |-> read_exact(bytes, len)]
              ELSE [kind |-> "ok", signed |-> signed,
                    value |-> from_be_bytes(Zeros(SIZE_OF_U128 - len) \o bytes)]

read_target_uint(bytes, endian, overflow_checks) ==
    read_target(bytes, endian, FALSE, overflow_checks)

read_target_int(bytes, endian, overflow_checks) ==
    read_target(bytes, endian, TRUE, overflow_checks)

ReadDone(fn, r) == [calls |-> <<>>, panicked |-> r.kind = "panic", done |-> TRUE,
                    fn |-> fn, out |-> r]

ReadTargetUint ==
    /\ node.sort = "bytes"
    /\ ~result.done
    /\ \E checks \in BOOLEAN :
          result' = ReadDone("read_target_uint",
                             read_target_uint(node.item.bytes, node.item.endian, checks))
    /\ UNCHANGED <<node, allocVars>>

ReadTargetInt ==
    /\ node.sort = "bytes"
    /\ ~result.done
    /\ \E checks \in BOOLEAN :
          result' = ReadDone("read_target_int",
                             read_target_int(node.item.bytes, node.item.endian, checks))
    /\ UNCHANGED <<node, allocVars>>

InitRead ==
    /\ \E bytes \in ByteSlices, endian \in Endian :
          node = NodeOf("bytes", [bytes |-> bytes, endian |-> endian], {}, NoPtx, NoLoc)
    /\ result = NotRun
    /\ AllocIdle

NextRead == ReadTargetUint \/ ReadTargetInt

SpecRead == InitRead /\ [][NextRead]_vars

----------------------------------------------------------------------------
(* Specification of one serializing thread *)

InitAlloc(T) ==
    /\ \E g \in AllocGraphs(NumAllocs, MaxPtrs) : global_alloc = [a \in AllocId |-> g[a + 1]]
    /\ TLV = [t \in T |-> FALSE]
    /\ scc = [t \in T |-> NoScc]
    /\ stack = [t \in T |-> <<>>]
    /\ pc = [t \in T |-> "idle"]
    /\ returned = [t \in T |-> {}]
    /\ descents = [t \in T |-> [a \in AllocId |-> 0]]
    /\ ev = NoEvent

\* the thread of the single-session specification
MainThreads == {"main"}

Init == InitAlloc(MainThreads) /\ VisitIdle

NextAlloc ==
    \E t \in MainThreads :
        \/ ToJson(t)
        \/ ToJsonNested(t)
        \/ ToJsonReturn(t)
        \/ DescendFirst(t)
        \/ DescendSeen(t)
        \/ ReturnFirst(t)
        \/ \E a \in AllocId :
            \/ SerializeFirst(t, a)
            \/ SerializeSeen(t, a)
            \/ SerializeOutside(t, a)

Next == NextAlloc

Spec == Init /\ [][Next]_vars

\* the sequential thread finishes a started get_index_and_populate_allocs call
RequestStep ==
    DescendFirst("main") \/ DescendSeen("main") \/ ReturnFirst("main")

FairSpec == Spec /\ WF_vars(RequestStep)

----------------------------------------------------------------------------
(* Specification of two threads that serialize at the same time *)

TwoThreads == {"t1", "t2"}

\* host contexts in which allocation 0 is memory with at most one provenance
\* entry and the other allocations are functions
ThreadGraphs ==
    {[a \in AllocId |-> IF a = 0 THEN [kind |-> "Memory", ptrs |-> p]
                        ELSE [kind |-> "Function", ptrs |-> <<>>]] :
        p \in SeqsOf(AllocId, 0, 1)}

InitThreads ==
    /\ global_alloc \in ThreadGraphs
    /\ TLV = [t \in TwoThreads |-> FALSE]
    /\ scc = [t \in TwoThreads |-> NoScc]
    /\ stack = [t \in TwoThreads |-> <<>>]
    /\ pc = [t \in TwoThreads |-> "idle"]
    /\ returned = [t \in TwoThreads |-> {}]
    /\ descents = [t \in TwoThreads |-> [a \in AllocId |-> 0]]
    /\ ev = NoEvent
    /\ VisitIdle

NextThreads ==
    \E t \in TwoThreads :
        \/ ToJson(t)
        \/ ToJsonNested(t)
        \/ ToJsonReturn(t)
        \/ DescendFirst(t)
        \/ DescendSeen(t)
        \/ ReturnFirst(t)
        \/ \E a \in AllocId :
            \/ SerializeFirst(t, a)
            \/ SerializeSeen(t, a)
            \/ SerializeOutside(t, a)

SpecThreads == InitThreads /\ [][NextThreads]_vars

----------------------------------------------------------------------------
(* The allocation graph the host context describes *)

\* the allocations a Memory allocation's provenance map points to
targets(a) ==
    IF global_alloc[a].kind = "Memory" THEN Range(global_alloc[a].ptrs) ELSE {}

RECURSIVE ReachFrom(_)
ReachFrom(S) ==
    LET n == S \cup UNION {targets(a) : a \in S}
    IN IF n = S THEN S ELSE ReachFrom(n)

\* a and everything reachable from it through provenance maps
Reach(a) == ReachFrom({a})

Acyclic == \A a \in AllocId : a \notin ReachFrom(targets(a))

NoDuplicates(s) == \A i, j \in 1..Len(s) : s[i] = s[j] => i = j

Ordered(t) == scc[t].allocs_ordered

\* the entries of s from 0-based position p on
EntriesFrom(s, p) == {s[i] : i \in (p + 1)..Len(s)}

EntriesBefore(s, p) == {s[i] : i \in 1..p}

----------------------------------------------------------------------------
(* Claims about the allocation indexer and the session *)

\* C1: within one session any two requests get_index_and_populate_allocs(A)
\* return the identical index, whatever happens in between.
C1_IdempotentIndexing ==
    \A t \in Threads : \A r1, r2 \in returned[t] : r1[1] = r2[1] => r1[2] = r2[2]

\* C2: the index a request for A returns, first request or later, is A's own
\* position in the flattened ordered list; a request made by serialize (depth 0)
\* writes that index next to the raw id.
C2_IndexIsOwnPosition ==
    ev.op = "return" => ev.index = position(Ordered(ev.t), ev.id)

\* C3: a request terminates on every finite graph, cycles and self references
\* included; no allocation is descended into more than once in a session; when
\* a request made by serialize returns, the flattened order has no duplicates
\* and holds everything reachable from A, and a first request has appended
\* exactly the reachable allocations that were not in the order before.
C3_Safety ==
    /\ \A a \in AllocId : descents["main"][a] <= 1
    /\ NoDuplicates(Ordered("main"))
    /\ (ev.op = "return" /\ ev.depth = 0) =>
          /\ Reach(ev.id) \subseteq Range(Ordered("main"))
          /\ ev.first =>
                LET p == position(Ordered("main"), ev.id)
                IN EntriesFrom(Ordered("main"), p)
                     = Reach(ev.id) \ EntriesBefore(Ordered("main"), p)

C3_CycleTermination ==
    /\ []C3_Safety
    /\ (stack["main"] # <<>>) ~> (stack["main"] = <<>>)

\* C3 witness: A -> B -> A was requested in a fresh session and the request has
\* returned with exactly two entries in the order.
C3_Witness ==
    /\ ev.op = "return" /\ ev.depth = 0 /\ ev.first
    /\ \E b \in AllocId \ {ev.id} :
          /\ b \in targets(ev.id)
          /\ ev.id \in targets(b)
          /\ Ordered("main") = <<ev.id, b>>

\* C4: to_json called while a session is active on the thread fails its
\* assertion, and the registry and the thread local of the first session are
\* left as they were.
C4_ScopeDiscipline ==
    [][ev'.op = "to_json_nested" =>
          /\ pc'[ev'.t] = "panicked"
          /\ scc' = scc
          /\ TLV' = TLV]_vars

\* C4 witness: the nested call panicked while the first session's registry
\* held entries.
C4_Witness ==
    /\ ev.op = "to_json_nested"
    /\ pc[ev.t] = "panicked"
    /\ TLV[ev.t]
    /\ Ordered(ev.t) # <<>>

\* C7 as stated: when any request for A returns, every allocation reachable
\* from A has an index.
C7_AnyRequestOrdering ==
    ev.op = "return" => Reach(ev.id) \subseteq Range(Ordered(ev.t))

\* C7 amended: when a request for A returns that serialize made (not a call
\* from inside another request's descent), or any request in an acyclic
\* graph, every allocation reachable from A has an index.
C7_Ordering ==
    (ev.op = "return" /\ (ev.depth = 0 \/ Acyclic)) =>
        Reach(ev.id) \subseteq Range(Ordered(ev.t))

\* C7 witness: in an acyclic graph the first request for A, whose provenance
\* points to another allocation B, has returned and B is in the order.
C7_Witness ==
    /\ Acyclic
    /\ ev.op = "return" /\ ev.depth = 0 /\ ev.first
    /\ \E b \in targets(ev.id) : b # ev.id /\ b \in Range(Ordered(ev.t))

\* C15: within one session, whatever the sequence of requests, two different
\* allocation ids are never given the same index, so that the index identifies
\* the allocation.
C15_IndexIsKey ==
    \A t \in Threads : \A r1, r2 \in returned[t] : r1[2] = r2[2] => r1[1] = r2[1]

\* the list after the part of the graph reachable from a that is not in order
\* has been appended to it in depth-first pre-order, the provenance of a memory
\* allocation taken in iteration order
RECURSIVE PreOrder(_, _), PreOrderAll(_, _)
PreOrder(order, a) ==
    IF a \in Range(order) THEN order
    ELSE PreOrderAll(Append(order, a),
                     IF global_alloc[a].kind = "Memory" THEN global_alloc[a].ptrs
                     ELSE <<>>)

PreOrderAll(order, ptrs) ==
    IF ptrs = <<>> THEN order
    ELSE PreOrderAll(PreOrder(order, Head(ptrs)), Tail(ptrs))

C17_RegistryInvariant ==
    /\ [](/\ ev.op # "unwrap_none"
          /\ \A t \in Threads :
                /\ NoDuplicates(Ordered(t))
                /\ Range(Ordered(t)) = scc[t].seen_allocs
                /\ \A a \in scc[t].seen_allocs :
                      /\ seen_index(scc[t], a) >= 0
                      /\ Ordered(t)[seen_index(scc[t], a) + 1] = a)
    /\ [][ev'.op \in {"enter", "return", "unwrap_none"} =>
            \A t \in Threads :
                /\ Len(Ordered(t)) <= Len(scc'[t].allocs_ordered)
                /\ SubSeq(scc'[t].allocs_ordered, 1, Len(Ordered(t))) = Ordered(t)
                /\ \A a \in scc[t].seen_allocs :
                      seen_index(scc'[t], a) = seen_index(scc[t], a)]_vars

\* C17 witness: a request for the id that was appended second has been
\* answered by the position lookup.
C17_Witness ==
    /\ ev.op = "return" /\ ~ev.first
    /\ Len(Ordered(ev.t)) = 2
    /\ Ordered(ev.t)[2] = ev.id
    /\ ev.index = 1

----------------------------------------------------------------------------
(* Claims about the visitor *)

\* the calls of visit method op that super method f issued, in order
CallsOf(op, f) == SelectSeq(result.calls, LAMBDA c : c.op = op /\ c.from = f)

\* the only call of op that f issued visits item arg at location loc
VisitsOnceAt(op, f, arg, loc) ==
    /\ Len(CallsOf(op, f)) = 1
    /\ CallsOf(op, f)[1].arg = arg
    /\ CallsOf(op, f)[1].loc = loc

VisitsOnce(op, f, arg) == VisitsOnceAt(op, f, arg, node.loc)

\* as VisitsOnceAt, unless an earlier child's descent ended the traversal
VisitsOnceIfReached(op, f, arg, loc) ==
    /\ Len(CallsOf(op, f)) <= 1
    /\ Len(CallsOf(op, f)) = 1 => VisitsOnceAt(op, f, arg, loc)
    /\ ~result.panicked => VisitsOnceAt(op, f, arg, loc)

\* C5: super_statement visits the place of Assign, SetDiscriminant, Deinit
\* and Retag with a mutating context, the place of FakeRead and PlaceMention
\* with a non-mutating one, the local of StorageLive and StorageDead with
\* NON_USE; super_terminator visits the place of Drop and (when the descent
\* gets there) the destination of Call with a mutating context; super_operand
\* visits the place of Copy and Move with a non-mutating context, everywhere
\* in the traversal; super_var_debug_info visits a Place value with NON_USE.
C5_MutationClassification ==
    result.done =>
      /\ \A i \in 1..Len(result.calls) :
            (result.calls[i].op = "visit_place" /\ result.calls[i].from = "super_operand")
                => ~is_mutating(result.calls[i].ptx)
      /\ (node.sort = "statement"
            /\ node.item.kind.statement \in {"Assign", "SetDiscriminant", "Deinit", "Retag"}) =>
            /\ VisitsOnce("visit_place", "super_statement", node.item.kind.place)
            /\ is_mutating(CallsOf("visit_place", "super_statement")[1].ptx)
      /\ (node.sort = "statement"
            /\ node.item.kind.statement \in {"FakeRead", "PlaceMention"}) =>
            /\ VisitsOnce("visit_place", "super_statement", node.item.kind.place)
            /\ ~is_mutating(CallsOf("visit_place", "super_statement")[1].ptx)
      /\ (node.sort = "statement"
            /\ node.item.kind.statement \in {"StorageLive", "StorageDead"}) =>
            /\ VisitsOnce("visit_local", "super_statement", node.item.kind.local)
            /\ CallsOf("visit_local", "super_statement")[1].ptx = NON_USE
            /\ ~is_mutating(CallsOf("visit_local", "super_statement")[1].ptx)
      /\ (node.sort = "terminator" /\ node.item.kind.terminator = "Drop") =>
            /\ VisitsOnce("visit_place", "super_terminator", node.item.kind.place)
            /\ is_mutating(CallsOf("visit_place", "super_terminator")[1].ptx)
      /\ (node.sort = "terminator" /\ node.item.kind.terminator = "Call") =>
            /\ VisitsOnceIfReached("visit_place", "super_terminator",
                                   node.item.kind.destination, node.loc)
            /\ \A i \in 1..Len(CallsOf("visit_place", "super_terminator")) :
                  is_mutating(CallsOf("visit_place", "super_terminator")[i].ptx)
      /\ (node.sort = "operand" /\ node.item.operand \in {"Copy", "Move"}) =>
            /\ VisitsOnce("visit_place", "super_operand", node.item.place)
      /\ (node.sort = "var_debug_info" /\ node.item.value.contents = "Place") =>
            /\ VisitsOnceIfReached("visit_place", "super_var_debug_info",
                                   node.item.value.place, Location(node.item.span))
            /\ \A i \in 1..Len(CallsOf("visit_place", "super_var_debug_info")) :
                  /\ CallsOf("visit_place", "super_var_debug_info")[i].ptx = NON_USE
                  /\ ~is_mutating(CallsOf("visit_place", "super_var_debug_info")[i].ptx)

\* C5 witness: the default descent of a call has visited an argument's place
\* and then the destination, and returned.
C5_Witness ==
    /\ result.done /\ ~result.panicked
    /\ node.sort = "terminator" /\ node.v = {}
    /\ node.item.kind.terminator = "Call"
    /\ Len(CallsOf("visit_place", "super_operand")) >= 2
    /\ Len(CallsOf("visit_place", "super_terminator")) = 1

\* the visits of blocks, statements and terminators a traversal made
BlockVisits ==
    LET cs == SelectSeq(result.calls,
                        LAMBDA c : c.op \in {"visit_basic_block", "visit_statement",
                                             "visit_terminator"})
    IN [i \in 1..Len(cs) |-> [op |-> cs[i].op, arg |-> cs[i].arg]]

\* one visit per block, per statement of the block in order, then its terminator
RECURSIVE BlockOrder(_)
BlockOrder(blocks) ==
    IF blocks = <<>> THEN <<>>
    ELSE LET bb == Head(blocks) IN
         <<[op |-> "visit_basic_block", arg |-> bb]>>
         \o [i \in 1..Len(bb.statements) |->
                [op |-> "visit_statement", arg |-> bb.statements[i]]]
         \o <<[op |-> "visit_terminator", arg |-> bb.terminator]>>
         \o BlockOrder(Tail(blocks))

IsPrefix(s, t) == Len(s) <= Len(t) /\ s = SubSeq(t, 1, Len(s))

\* no super_X issued a call of visit_X
NoSelfVisit ==
    \A i \in 1..Len(result.calls) :
        result.calls[i].op \in DOMAIN super_of
            => result.calls[i].from # super_of[result.calls[i].op]

\* C6 as stated: for every body, with or without one overridden visit method,
\* visit_body visits each block once in order, each of its statements once in
\* order and then its terminator, and no super_X calls visit_X.
C6_ExactlyOncePerNode ==
    (result.done /\ node.sort = "body") =>
        /\ BlockVisits = BlockOrder(node.item.blocks)
        /\ NoSelfVisit

\* C6 amended: the visits made are the expected ones in the expected order up
\* to the point where the traversal stops; they are all of them when the
\* traversal returns; no super_X calls visit_X.
C6_DefaultWiring ==
    (result.done /\ node.sort = "body") =>
        /\ IsPrefix(BlockVisits, BlockOrder(node.item.blocks))
        /\ ~result.panicked => BlockVisits = BlockOrder(node.item.blocks)
        /\ NoSelfVisit

\* C6 witness: a visitor that overrides visit_statement and calls
\* super_statement has traversed a body of two blocks with statements, and
\* returned.
C6_Witness ==
    /\ result.done /\ ~result.panicked
    /\ node.sort = "body" /\ node.v = {"visit_statement"}
    /\ Len(node.item.blocks) >= 2
    /\ \A i \in 1..Len(node.item.blocks) : Len(node.item.blocks[i].statements) >= 1

\* the type kinds the claim lists as having no structural descent
NotImplemented(ty) ==
    \/ ty.tykind = "Alias"
    \/ /\ ty.tykind = "RigidTy"
       /\ ty.variant \in {"Adt", "Array", "Slice", "Pat", "RawPtr", "Ref", "FnDef", "FnPtr",
                          "Closure", "Coroutine", "CoroutineWitness", "Tuple"}

\* C8 as stated: the default traversal of a type of one of the listed kinds
\* terminates fatally.
C8_UnimplementedIsFatal ==
    (result.done /\ node.sort = "ty" /\ node.v = {} /\ NotImplemented(node.item))
        => result.panicked

\* the rvalue that a traversal of an rvalue or of an Assign statement visits
HasRvalue ==
    \/ node.sort = "rvalue"
    \/ node.sort = "statement" /\ node.item.kind.statement = "Assign"

TheRvalue == IF node.sort = "rvalue" THEN node.item ELSE node.item.kind.rvalue

\* C18: super_rvalue visits the place of a Ref or AddressOf rvalue once, with
\* a mutating context exactly when the borrow kind is Mut (for Ref) or the
\* mutability is Mut (for AddressOf) and with the non-mutating context
\* otherwise; for Ref it visits the region as well, before the place.
C18_PointerMutability ==
    (result.done /\ HasRvalue /\ TheRvalue.rvalue \in {"Ref", "AddressOf"}) =>
        LET places == CallsOf("visit_place", "super_rvalue")
            regions == CallsOf("visit_region", "super_rvalue")
            declared_mut == IF TheRvalue.rvalue = "Ref" THEN TheRvalue.kind = "Mut"
                            ELSE TheRvalue.mutability = "Mut"
        IN /\ VisitsOnceIfReached("visit_place", "super_rvalue", TheRvalue.place, node.loc)
           /\ node.sort = "rvalue" => Len(places) = 1
           /\ \A i \in 1..Len(places) :
                 /\ is_mutating(places[i].ptx) <=> declared_mut
                 /\ places[i].ptx = IF declared_mut THEN MUTATING ELSE NON_MUTATING
           /\ Len(places) = 1 =>
                 /\ TheRvalue.rvalue = "Ref" =>
                       /\ VisitsOnce("visit_region", "super_rvalue", TheRvalue.region)
                       /\ \E i, j \in 1..Len(result.calls) :
                             /\ i < j
                             /\ result.calls[i] = regions[1]
                             /\ result.calls[j] = places[1]
                 /\ TheRvalue.rvalue = "AddressOf" => regions = <<>>

\* C18 witness: a mutable borrow has been traversed and its place was visited
\* with a mutating context after the region.
C18_Witness ==
    /\ result.done /\ ~result.panicked
    /\ node.sort = "rvalue"
    /\ node.item.rvalue = "Ref" /\ node.item.kind = "Mut"
    /\ Len(CallsOf("visit_region", "super_rvalue")) = 1
    /\ Len(CallsOf("visit_place", "super_rvalue")) = 1
    /\ is_mutating(CallsOf("visit_place", "super_rvalue")[1].ptx)

\* the visits of local declarations that super_body issued, in order, each as
\* <<visit method, index passed, declaration>>
DeclVisits ==
    LET cs == SelectSeq(result.calls,
                        LAMBDA c : /\ c.from = "super_body"
                                   /\ c.op \in {"visit_ret_decl", "visit_arg_decl",
                                                 "visit_local_decl"})
    IN [i \in 1..Len(cs) |-> <<cs[i].op, cs[i].arg.local, cs[i].arg.decl>>]

\* the visits the numbering of the three regions calls for: the return slot,
\* the arguments 1..=arg_count, the interior locals from arg_count + 1
DeclNumbering(body) ==
    [n \in 1..Len(body.locals) |->
        <<IF n = 1 THEN "visit_ret_decl"
          ELSE IF n <= body.arg_count + 1 THEN "visit_arg_decl"
          ELSE "visit_local_decl",
          n - 1, body.locals[n]>>]

\* the indices passed are pairwise distinct and cover 0..k-1 for k visits
DenseIndices(visits) ==
    /\ \A i, j \in 1..Len(visits) : visits[i][2] = visits[j][2] => i = j
    /\ {visits[i][2] : i \in 1..Len(visits)} = 0..(Len(visits) - 1)

\* C19 as stated: for every body super_body visits each local declaration
\* once: the return slot through visit_ret_decl with index 0, argument i
\* through visit_arg_decl with index i, interior local j through
\* visit_local_decl with index arg_count + 1 + j; the indices are pairwise
\* distinct and cover 0..number of locals - 1.
C19_LocalNumbering ==
    (result.done /\ node.sort = "body") =>
        /\ DeclVisits = DeclNumbering(node.item)
        /\ DenseIndices(DeclVisits)
        /\ Len(DeclVisits) = Len(node.item.locals)

\* C19 amended: the declaration visits made are a prefix of that numbering,
\* so the indices passed are distinct and without gaps; they are the whole
\* numbering when the traversal returns, and they stop at the first
\* declaration or block whose descent ends the traversal.
C19_LocalNumberingReached ==
    (result.done /\ node.sort = "body") =>
        /\ IsPrefix(DeclVisits, DeclNumbering(node.item))
        /\ DenseIndices(DeclVisits)
        /\ ~result.panicked => DeclVisits = DeclNumbering(node.item)
        /\ (result.panicked /\ DeclVisits # <<>>) =>
              \/ DeclVisits[Len(DeclVisits)][3].ty = FnPtrTy
              \/ DeclVisits = DeclNumbering(node.item)

\* C19 witness: a body with arguments and interior locals has been traversed
\* to the end and every declaration was visited with its index.
C19_Witness ==
    /\ result.done /\ ~result.panicked
    /\ node.sort = "body"
    /\ node.item.arg_count >= 1
    /\ Len(node.item.locals) >= node.item.arg_count + 2
    /\ DeclVisits = DeclNumbering(node.item)

\* the calls of visit_ty in the traversal
TyVisits == SelectSeq(result.calls, LAMBDA c : c.op = "visit_ty")

\* the super methods of MIR items that hand a type to visit_ty
TyVisitCallers ==
    {"caller", "super_local_decl", "super_projection_elem", "super_rvalue", "super_const",
     "super_var_debug_info"}

\* C20: the default visit_ty on a type ends, normally or at a todo!(), after a
\* number of visit calls bounded by the kind of the type alone (not by its
\* generic arguments, element type or pointee), and the visit of the type
\* never calls visit_ty again: in any traversal visit_ty is only called by
\* the super method of a MIR item.
C20_BoundedTypeDescent ==
    result.done =>
        /\ \A i \in 1..Len(TyVisits) : TyVisits[i].from \in TyVisitCallers
        /\ (node.sort = "ty" /\ "visit_ty" \notin node.v) =>
              /\ Len(TyVisits) = 1
              /\ result.calls[1] = TyVisits[1]
              /\ TyVisits[1].arg = node.item
              /\ Len(SelectSeq(result.calls, LAMBDA c : c.op # "override"))
                    <= 5 + node.item.binders

\* C20 witness: the default visitor has visited an algebraic data type that
\* has a generic argument, and returned without visiting the argument.
C20_Witness ==
    /\ result.done /\ ~result.panicked
    /\ node.sort = "ty" /\ node.v = {}
    /\ node.item.variant = "Adt" /\ node.item.inner # <<>>
    /\ Len(TyVisits) = 1
    /\ Len(result.calls) = 4

\* the calls that super_place issued, in order
PlaceCalls == SelectSeq(result.calls, LAMBDA c : c.from = "super_place")

\* what the projection steps of a place are handed, in order: step k (from 0)
\* with the partial place of the same local and the k steps before it
StepVisits(place) ==
    [n \in 1..Len(place.projection) |->
        [place_ref |-> [local |-> place.local,
                        projection |-> [m \in 1..(n - 1) |-> place.projection[m]]],
         elem |-> place.projection[n]]]

\* the locals of the Index steps among the first n steps, in order
RECURSIVE IndexLocals(_, _)
IndexLocals(proj, n) ==
    IF n = 0 THEN <<>>
    ELSE IF proj[n].elem = "Index"
         THEN Append(IndexLocals(proj, n - 1), proj[n].local)
         ELSE IndexLocals(proj, n - 1)

\* the local is visited first, then projection steps only; every visit made
\* carries the context and the location of the place
PlaceDescentShape ==
    /\ PlaceCalls # <<>>
    /\ PlaceCalls[1].op = "visit_local"
    /\ PlaceCalls[1].arg = node.item.local
    /\ \A i \in 2..Len(PlaceCalls) : PlaceCalls[i].op = "visit_projection_elem"
    /\ \A i \in 1..Len(result.calls) :
          LET c == result.calls[i]
          IN /\ c.op \in {"visit_place", "visit_local", "visit_projection_elem"} =>
                   c.ptx = node.ptx /\ c.loc = node.loc
             /\ c.op = "visit_ty" => c.loc = node.loc

\* the arguments of the step visits made, and the locals of the visits that
\* Index steps made
StepsVisited ==
    [i \in 1..Len(CallsOf("visit_projection_elem", "super_place")) |->
        CallsOf("visit_projection_elem", "super_place")[i].arg]

IndexLocalsVisited ==
    [i \in 1..Len(CallsOf("visit_local", "super_projection_elem")) |->
        CallsOf("visit_local", "super_projection_elem")[i].arg]

----------------------------------------------------------------------------
(* Claims about place typing and integer decoding *)

\* C9: for a place whose local is in range, PlaceRef::ty does not panic; it
\* applies the steps in order from the left, the first to the local's
\* declared type and each next one to the type the one before yielded; an
\* empty projection yields the declared type; the result is what the last
\* applied step yielded; all steps are applied when the result is a type,
\* and when it is a failure it is the failure of the first inapplicable step
\* and no step after it was applied.
C9_PlaceTyping ==
    (result.done /\ node.sort = "place_ref"
        /\ node.item.place_ref.local < Len(node.item.locals)) =>
        LET proj == node.item.place_ref.projection
            decl == node.item.locals[node.item.place_ref.local + 1].ty
            ap   == result.applied
        IN /\ ~result.panicked
           /\ Len(ap) <= Len(proj)
           /\ \A i \in 1..Len(ap) :
                /\ ap[i].elem = proj[i]
                /\ ap[i].ty = (IF i = 1 THEN decl ELSE elem_ty(proj[i - 1], ap[i - 1].ty).ty)
                /\ i < Len(ap) => elem_ty(proj[i], ap[i].ty).ok
           /\ proj = <<>> => result.res = OkTy(decl)
           /\ proj # <<>> =>
                /\ Len(ap) >= 1
                /\ result.res = elem_ty(proj[Len(ap)], ap[Len(ap)].ty)
           /\ result.res.ok => Len(ap) = Len(proj)

\* C9 witness: two applicable steps were folded and yielded a type that is
\* not the declared one.
C9_Witness ==
    /\ result.done /\ node.sort = "place_ref"
    /\ ~result.panicked
    /\ Len(node.item.place_ref.projection) >= 2
    /\ Len(result.applied) = Len(node.item.place_ref.projection)
    /\ result.res.ok
    /\ node.item.place_ref.projection[1].elem = "Deref"
    /\ node.item.place_ref.projection[2].elem = "Index"

\* C10 as stated: for every byte slice read_target_uint and read_target_int
\* return the decoded value or an error value; they never panic, and a
\* decoded value holds every byte of the input.
C10_HostDataFaultsRecoverable ==
    (result.done /\ node.sort = "bytes") =>
        /\ result.out.kind \in {"ok", "err"}
        /\ result.out.kind = "ok" =>
              \E k \in 0..SIZE_OF_U128 :
                 /\ k = Len(node.item.bytes)
                 /\ SubSeq(result.out.value, 1, k)
                      = (IF node.item.endian = "Little" THEN node.item.bytes
                         ELSE Reverse(node.item.bytes))

----------------------------------------------------------------------------
(* Claims about the usage context and the session's scope *)

\* the calls of visit_place and visit_local that super method f issued
UsesOf(f) ==
    SelectSeq(result.calls, LAMBDA c : c.op \in {"visit_place", "visit_local"} /\ c.from = f)

\* C11 as stated: the context handed to visit_place / visit_local at a non-use
\* (storage marker, type ascription, debug-info binding) differs observably
\* from the context of a non-mutating use and from that of a mutating use:
\* it is not equal to them, although is_mutating may agree.
C11_ThreeUsageClasses ==
    result.done =>
      /\ (node.sort = "statement"
            /\ node.item.kind.statement \in {"StorageLive", "StorageDead", "AscribeUserType"}) =>
            \A i \in 1..Len(UsesOf("super_statement")) :
                /\ UsesOf("super_statement")[i].ptx # NON_MUTATING
                /\ UsesOf("super_statement")[i].ptx # MUTATING
      /\ (node.sort = "var_debug_info" /\ node.item.value.contents = "Place") =>
            \A i \in 1..Len(UsesOf("super_var_debug_info")) :
                /\ UsesOf("super_var_debug_info")[i].ptx # NON_MUTATING
                /\ UsesOf("super_var_debug_info")[i].ptx # MUTATING
      /\ (node.sort = "statement"
            /\ node.item.kind.statement \in {"FakeRead", "PlaceMention"}) =>
            \A i \in 1..Len(UsesOf("super_statement")) :
                /\ UsesOf("super_statement")[i].ptx # NON_USE
                /\ UsesOf("super_statement")[i].ptx # MUTATING

\* C12: serializing an allocation id on a thread with no session fails the
\* assertion of cycle_check; no index is returned and no registry, thread
\* local or request stack changes.
C12_NoSessionIsFatal ==
    [][ev'.op = "serialize_outside" =>
          /\ pc'[ev'.t] = "panicked"
          /\ returned' = returned
          /\ scc' = scc
          /\ TLV' = TLV
          /\ stack' = stack]_vars

\* C12 witness: the serialization outside a session has panicked; the thread
\* has no registry and has returned no index.
C12_Witness ==
    /\ ev.op = "serialize_outside"
    /\ pc[ev.t] = "panicked"
    /\ ~TLV[ev.t]
    /\ scc[ev.t] = NoScc
    /\ returned[ev.t] = {}

\* C13: when to_json has returned no session is active on the thread and its
\* registry is gone; a to_json call that follows is enabled and establishes a
\* session (it does not panic) whose registry is empty, so nothing an earlier
\* session saw is in it.
C13_SessionLifetime ==
    /\ [](ev.op = "to_json_return" =>
            /\ ~TLV[ev.t]
            /\ pc[ev.t] = "idle"
            /\ scc[ev.t] = NoScc
            /\ ENABLED ToJson(ev.t))
    /\ [][ev'.op = "to_json" =>
            /\ pc'[ev'.t] = "session"
            /\ TLV'[ev'.t]
            /\ scc'[ev'.t].seen_allocs = {}
            /\ scc'[ev'.t].allocs_ordered = <<>>
            /\ returned'[ev'.t] = {}]_vars

\* C13 witness: a session has returned and the thread is idle again.
C13_Witness ==
    /\ ev.op = "to_json_return"
    /\ pc[ev.t] = "idle"
    /\ ~TLV[ev.t]

----------------------------------------------------------------------------
(* Claims about concurrent sessions *)

\* C14: with two threads serializing at the same time, in every interleaving:
\* an idle thread can establish a session whatever the other thread does; a
\* thread in a session passes the assertion of cycle_check; a thread panics
\* only in a step of its own; a step of one thread changes nothing the other
\* owns; and an index returned is a function of the returning thread's
\* registry alone, as when it runs alone.
C14_ThreadIsolation ==
    /\ [](\A t \in TwoThreads :
            /\ pc[t] = "idle" => ENABLED ToJson(t)
            /\ pc[t] = "session" => cycle_check_assert(t))
    /\ [](ev.op = "return" =>
            /\ ev.index < Len(Ordered(ev.t))
            /\ ev.index = (IF ev.first THEN Cardinality(scc[ev.t].seen_allocs) - 1
                           ELSE position(Ordered(ev.t), ev.id)))
    /\ [][\A t \in TwoThreads :
            ev'.t # t =>
                /\ TLV'[t] = TLV[t] /\ scc'[t] = scc[t] /\ stack'[t] = stack[t]
                /\ pc'[t] = pc[t] /\ returned'[t] = returned[t]
                /\ descents'[t] = descents[t]]_vars

\* C14 witness: both threads are in a session at once, their registries hold
\* different orders, and a request has just returned.
C14_Witness ==
    /\ pc["t1"] = "session" /\ pc["t2"] = "session"
    /\ Ordered("t1") # <<>> /\ Ordered("t2") # <<>>
    /\ Ordered("t1") # Ordered("t2")
    /\ ev.op = "return"

====
